---- MODULE Spec2Model ----
(***************************************************************************)
(* A model of env_logger's fmt module (src/src/fmt.rs): the writer         *)
(* Builder, the Formatter and the buffer it shares with its Styles, the    *)
(* StyledValue rendering protocol (apply, write, reset) and the Timestamp. *)
(*                                                                         *)
(* Bytes are modelled as sequences of tokens: a token is either a piece of *)
(* text or one terminal escape sequence.  The termcolor buffer is modelled *)
(* by its WriteColor contract: an ANSI buffer appends escape sequences, a  *)
(* no-color buffer drops them, and set_color / reset return io::Result.    *)
(***************************************************************************)
EXTENDS Integers, Sequences, FiniteSets, TLC

VARIABLES
    builder,    \* Builder { target, write_style }
    writer,     \* Writer built by Builder::build, or NoWriter
    fmts,       \* thread -> its Formatter { buf, write_style } or NoFormatter
    bufs,       \* heap of Rc<RefCell<Buffer>> cells: id -> [kind, data]
    borrow,     \* RefCell borrow flag of each cell: 0 free, -1 mutable, n shared
    styles,     \* Style objects: id -> [buf, spec, owner]
    stack,      \* thread -> styled values being rendered (innermost last)
    scene,      \* thread -> how far its record follows the documented example
    issued,     \* thread -> the bytes its calls wrote, in call order, since the last clear
    pc,         \* thread -> "idle" | "print" | "printed" (the driver clears next)
    job,        \* thread -> the running print: tokens sent, buffer at its start, offset
    lock,       \* holder of the destination stream's lock: "free" or a thread
    dest,       \* target -> tokens received by the real stream
    last,       \* the most recent operation and its result
    panicked,   \* a RefCell borrow check failed
    clock,      \* the current instant (Utc::now())
    ts,         \* the captured Timestamp, or NoTimestamp
    shown       \* the texts rendered from ts so far

vars == <<builder, writer, fmts, bufs, borrow, styles, stack, scene,
          issued, pc, job, lock, dest, last, panicked, clock, ts, shown>>

builderVars == <<builder, writer>>
fmtVars     == <<fmts, bufs, borrow, styles, stack, scene, issued>>
printVars   == <<pc, job, lock, dest>>
tsVars      == <<clock, ts, shown>>

(***************************************************************************)
(* Bounds of the model.                                                    *)
(***************************************************************************)
MaxBytes  == 6   \* tokens a run writes: held by the stream and in the buffer
MaxStyles == 2   \* Style objects alive at once
MaxPrinted == 1  \* Style objects alive at once where records are printed
MaxDepth  == 2   \* nesting depth of styled values
MaxShown  == 2   \* renders of one captured Timestamp
MaxRecord == 2   \* writes per record when several threads log

Threads     == {"t1", "t2"}
MainThreads == {"t1"}

(***************************************************************************)
(* Enumerations.                                                           *)
(***************************************************************************)
Targets     == {"Stdout", "Stderr"}
WriteStyles == {"Auto", "Always", "Never"}
Colors      == {"Red"}

DefaultTarget     == "Stderr"
DefaultWriteStyle == "Auto"

NoWriter    == [none |-> "writer"]
NoFormatter == [none |-> "formatter"]
NoTimestamp == [none |-> "timestamp"]
NoColorSet  == "None"

\* The style-choice strings the builder is fed.
SpecStrings ==
    {"auto", "always", "never", "", "true", "false", "NEVER!!",
     "Auto", "ALWAYS", "Never", " never", "never ", "auto!", "alway", "nev"}

\* The pieces of text a format callback writes.
Texts == {"ERROR", ": boom"}

(***************************************************************************)
(* Builder.                                                                *)
(***************************************************************************)
parse_write_style_any(spec) ==
    CASE spec \in {"auto", "Auto"}       -> "Auto"
      [] spec \in {"always", "ALWAYS"}   -> "Always"
      [] spec \in {"never", "Never", "NEVER!!", " never", "never "} -> "Never"
      [] OTHER                           -> DefaultWriteStyle

parse_write_style(spec) ==
    CASE spec = "auto"   -> "Auto"
      [] spec = "always" -> "Always"
      [] spec = "never"  -> "Never"
      [] OTHER           -> DefaultWriteStyle

BuilderNew == [target |-> DefaultTarget, write_style |-> DefaultWriteStyle]

ColorChoiceSwapped(write_style) ==
    CASE write_style = "Auto"   -> "Auto"
      [] write_style = "Always" -> "Never"
      [] write_style = "Never"  -> "Always"

ColorChoiceOf(write_style) ==
    CASE write_style = "Auto"   -> "Auto"
      [] write_style = "Always" -> "Always"
      [] write_style = "Never"  -> "Never"

\* A build that opens the other stream.
BuildOtherTarget(b) ==
    [target       |-> IF b.target = "Stdout" THEN "Stderr" ELSE "Stdout",
     color_choice |-> ColorChoiceOf(b.write_style),
     write_style  |-> b.write_style]

\* Builder::build: the Writer holds the BufferWriter of the chosen stream
\* (its target and colour choice) and the builder's write_style.
Build(b) ==
    [target       |-> b.target,
     color_choice |-> ColorChoiceOf(b.write_style),
     write_style  |-> b.write_style]

BuilderTarget(t) ==
    /\ builder' = [builder EXCEPT !.target = t]
    /\ last' = [op |-> "target"]
    /\ UNCHANGED <<writer, fmtVars, printVars, panicked, tsVars>>

BuilderParse(s) ==
    /\ builder' = [builder EXCEPT !.write_style = parse_write_style(s)]
    /\ last' = [op |-> "parse", input |-> s, was |-> builder.write_style]
    /\ UNCHANGED <<writer, fmtVars, printVars, panicked, tsVars>>

BuilderWriteStyle(ws) ==
    /\ builder' = [builder EXCEPT !.write_style = ws]
    /\ last' = [op |-> "write_style"]
    /\ UNCHANGED <<writer, fmtVars, printVars, panicked, tsVars>>

BuilderBuild ==
    /\ writer' = Build(builder)
    /\ last' = [op |-> "build"]
    /\ UNCHANGED <<builder, fmtVars, printVars, panicked, tsVars>>

(***************************************************************************)
(* The termcolor buffer, by its WriteColor contract.                       *)
(***************************************************************************)
RESET == "ESC[0m"
BOLD  == "ESC[1m"
FgToken(c) == CASE c = "Red" -> "ESC[31m"

EscapeTokens == {RESET, BOLD} \cup {FgToken(c) : c \in Colors}

IsEscape(tok) == tok \in EscapeTokens

\* BufferWriter::buffer(): an ANSI buffer when the colour choice asks for
\* colour (Auto asks the environment), a no-color buffer otherwise.
BufferKind(w, env) ==
    IF w.color_choice = "Always" \/ (w.color_choice = "Auto" /\ env)
    THEN "ansi" ELSE "nocolor"

ColorSpecNew == [fg |-> NoColorSet, bold |-> FALSE]

\* The escape sequences an ANSI buffer writes for a spec.
SetColorSeq(spec) ==
    <<RESET>>
    \o (IF spec.bold THEN <<BOLD>> ELSE <<>>)
    \o (IF spec.fg # NoColorSet THEN <<FgToken(spec.fg)>> ELSE <<>>)

\* Buffer::set_color -> io::Result<()>: a no-color buffer does nothing and
\* succeeds; an ANSI buffer writes the whole sequence, or fails after
\* writing a strict prefix of it.
SetColorOutcomes(kind, spec) ==
    IF kind = "nocolor"
    THEN {[res |-> "ok", bytes |-> <<>>]}
    ELSE {[res |-> "ok", bytes |-> SetColorSeq(spec)]}
         \cup {[res |-> "err", bytes |-> SubSeq(SetColorSeq(spec), 1, n)] :
                  n \in {0, Len(SetColorSeq(spec)) - 1}}

\* Buffer::reset -> io::Result<()>.
ResetOutcomes(kind) ==
    IF kind = "nocolor"
    THEN {[res |-> "ok", bytes |-> <<>>]}
    ELSE {[res |-> "ok", bytes |-> <<RESET>>], [res |-> "err", bytes |-> <<>>]}

\* The terminal-color state a byte sequence leaves behind: "reset" after a
\* reset sequence (or with no escape sequence at all), "styled" otherwise.
RECURSIVE ColorState(_)
ColorState(data) ==
    IF data = <<>> THEN "reset"
    ELSE LET tok == data[Len(data)] IN
         IF tok = RESET THEN "reset"
         ELSE IF IsEscape(tok) THEN "styled"
         ELSE ColorState(SubSeq(data, 1, Len(data) - 1))

\* The text of a byte sequence: its tokens that are not escape sequences.
StripEscapes(data) == SelectSeq(data, LAMBDA tok : ~IsEscape(tok))

(***************************************************************************)
(* RefCell.                                                                *)
(***************************************************************************)
\* An operation whose result no property reads.
Other == [op |-> "other"]

CanBorrowMut(b) == borrow[b] = 0
CanBorrow(b)    == borrow[b] >= 0

Panic ==
    /\ panicked' = TRUE
    /\ last' = [op |-> "panic"]
    /\ UNCHANGED <<builderVars, fmtVars, printVars, tsVars>>

(***************************************************************************)
(* The documented example (module doc, Style doc): a record that is one    *)
(* red and bold styled value "ERROR" followed by the plain text ": boom".  *)
(* scene follows a record through it: fresh, applied, valued, styled,      *)
(* match; any other write to the buffer turns it off.                      *)
(***************************************************************************)
RedBold == [fg |-> "Red", bold |-> TRUE]

SceneAfterApply(cur, depth, spec, res) ==
    IF cur = "fresh" /\ depth = 0 /\ spec = RedBold /\ res = "ok"
    THEN "applied" ELSE "off"

SceneAfterWrite(cur, depth, text) ==
    IF cur = "applied" /\ depth = 1 /\ text = "ERROR" THEN "valued"
    ELSE IF cur = "styled" /\ depth = 0 /\ text = ": boom" THEN "match"
    ELSE "off"

SceneAfterReset(cur, write, reset) ==
    IF cur = "valued" /\ write = "ok" /\ reset = "ok" THEN "styled" ELSE "off"

(***************************************************************************)
(* Formatter.                                                              *)
(***************************************************************************)
Idle(t) == fmts[t] # NoFormatter /\ pc[t] = "idle"

\* Room in the run for n more tokens and the resets still owed.
Room(t, n) ==
    Len(dest[writer.target]) + Len(issued[t]) + n + Len(stack[t]) <= MaxBytes

\* A buffer cell for a new Formatter: one cell shared by every Formatter.
FormatterCellShared(t, env) ==
    IF Len(bufs) > 0
    THEN [heap |-> bufs, flags |-> borrow, id |-> 1]
    ELSE [heap  |-> Append(bufs, [kind |-> BufferKind(writer, env),
                                  data |-> <<>>]),
          flags |-> Append(borrow, 0),
          id    |-> Len(bufs) + 1]

\* Rc::new(RefCell::new(writer.inner.buffer())): a fresh cell.
FormatterCell(t, env) ==
    [heap  |-> Append(bufs, [kind |-> BufferKind(writer, env),
                             data |-> <<>>]),
     flags |-> Append(borrow, 0),
     id    |-> Len(bufs) + 1]

FormatterNew(t) ==
    /\ writer # NoWriter
    /\ fmts[t] = NoFormatter
    /\ \E env \in BOOLEAN : LET c == FormatterCell(t, env) IN
         /\ bufs' = c.heap
         /\ borrow' = c.flags
         /\ fmts' = [fmts EXCEPT ![t] = [buf |-> c.id,
                                         write_style |-> writer.write_style]]
    /\ last' = Other
    /\ UNCHANGED <<builderVars, styles, stack, scene, issued, printVars,
                   panicked, tsVars>>

\* The cell of a new Style: a private copy of the Formatter's buffer.
StyleCellCopy(t) ==
    [heap  |-> Append(bufs, [bufs[fmts[t].buf] EXCEPT !.data = <<>>]),
     flags |-> Append(borrow, 0),
     id    |-> Len(bufs) + 1]

\* self.buf.clone(): the Rc of the Formatter's own cell.
StyleCell(t) == [heap |-> bufs, flags |-> borrow, id |-> fmts[t].buf]

FormatterStyle(t) ==
    /\ Idle(t)
    /\ Len(styles) < MaxStyles
    /\ LET c == StyleCell(t) IN
         /\ bufs' = c.heap
         /\ borrow' = c.flags
         /\ styles' = Append(styles, [buf |-> c.id, spec |-> ColorSpecNew,
                                      owner |-> t])
    /\ last' = Other
    /\ UNCHANGED <<builderVars, fmts, stack, scene, issued, printVars,
                   panicked, tsVars>>

\* #[derive(Clone)] for Style: the Rc and the spec are cloned.
StyleClone(s) ==
    /\ s \in DOMAIN styles
    /\ Idle(styles[s].owner)
    /\ Len(styles) < MaxStyles
    /\ styles' = Append(styles, styles[s])
    /\ last' = Other
    /\ UNCHANGED <<builderVars, fmts, bufs, borrow, stack, scene, issued,
                   printVars, panicked, tsVars>>

\* A Style borrowed by a StyledValue being rendered cannot be mutated.
InRender(s) == \E i \in DOMAIN stack[styles[s].owner] :
                   stack[styles[s].owner][i] = s

SetSpec(s, spec) ==
    /\ s \in DOMAIN styles
    /\ Idle(styles[s].owner)
    /\ ~InRender(s)
    /\ styles' = [styles EXCEPT ![s].spec = spec]
    /\ last' = Other
    /\ UNCHANGED <<builderVars, fmts, bufs, borrow, stack, scene, issued,
                   printVars, panicked, tsVars>>

StyleSetColor(s, c) ==
    /\ s \in DOMAIN styles
    /\ SetSpec(s, [styles[s].spec EXCEPT !.fg = c])

StyleSetBold(s, yes) ==
    /\ s \in DOMAIN styles
    /\ SetSpec(s, [styles[s].spec EXCEPT !.bold = yes])

\* impl Write for Formatter: write.  Also the path a value takes when it is
\* rendered through the Formatter (inside a StyledValue when stack is not
\* empty).
FormatterWrite(t, text) ==
    /\ Idle(t)
    /\ Room(t, 1)
    /\ LET b == fmts[t].buf IN
         IF CanBorrowMut(b)
         THEN /\ bufs' = [bufs EXCEPT ![b].data = @ \o <<text>>]
              /\ issued' = [issued EXCEPT ![t] = @ \o <<text>>]
              /\ scene' = [scene EXCEPT ![t] =
                              SceneAfterWrite(@, Len(stack[t]), text)]
              /\ last' = Other
              /\ UNCHANGED <<builderVars, fmts, borrow, styles, stack,
                             printVars, panicked, tsVars>>
         ELSE Panic

\* impl Write for Formatter: flush (a Buffer's flush does nothing).
FormatterFlush(t) ==
    /\ Idle(t)
    /\ IF CanBorrowMut(fmts[t].buf)
       THEN /\ last' = Other
            /\ UNCHANGED <<builderVars, fmtVars, printVars, panicked,
                           tsVars>>
       ELSE Panic

(***************************************************************************)
(* StyledValue::write_fmt, in the two parts its closure call separates.    *)
(***************************************************************************)
\* The RefMut of the set_color statement kept alive across the closure call.
BorrowHeldAcrossWrite(b) == [borrow EXCEPT ![b] = -1]

\* The RefMut of the set_color statement is a temporary: dropped at the end
\* of the statement.
BorrowAfterApply(b) == borrow

\* The reset skipped when the write failed (write? before reset).
ResetOnlyAfterGoodWrite(write) == write = "ok"

\* "Always try to reset the terminal style, even if writing failed".
ResetAttempted(write) == TRUE

\* Result::or in place of Result::and.
ResultOr(write, reset) == IF write = "ok" THEN write ELSE reset

\* write.and(reset)
ResultAnd(write, reset) == IF write = "ok" THEN reset ELSE write

\* self.style.buf.borrow_mut().set_color(&self.style.spec).map_err(..)?
\* and, when it succeeded, the call of the closure f.
StyledValueApply(t, s, o) ==
    /\ Idle(t)
    /\ s \in DOMAIN styles
    /\ styles[s].owner = t
    /\ Len(stack[t]) < MaxDepth
    /\ LET b == styles[s].buf IN
         IF CanBorrowMut(b)
         THEN   /\ o \in SetColorOutcomes(bufs[b].kind, styles[s].spec)
                /\ Room(t, Len(o.bytes) + 1)
                /\ bufs' = [bufs EXCEPT ![b].data = @ \o o.bytes]
                /\ issued' = [issued EXCEPT ![t] = @ \o o.bytes]
                /\ scene' = [scene EXCEPT ![t] =
                                SceneAfterApply(@, Len(stack[t]),
                                                styles[s].spec, o.res)]
                /\ IF o.res = "ok"
                   THEN /\ stack' = [stack EXCEPT ![t] = Append(@, s)]
                        /\ borrow' = BorrowAfterApply(b)
                        /\ last' = Other
                   ELSE /\ stack' = stack
                        /\ borrow' = borrow
                        /\ last' = [op |-> "render", thread |-> t, style |-> s,
                                    apply |-> "err", write |-> "none",
                                    reset |-> "none", res |-> "err",
                                    depth |-> Len(stack[t])]
                /\ UNCHANGED <<builderVars, fmts, styles, printVars,
                               panicked, tsVars>>
         ELSE Panic

\* let write = f(); let reset = ...reset().map_err(..); write.and(reset)
\* The closure's result is the inner value's choice.
StyledValueReset(t, write, o) ==
    /\ Idle(t)
    /\ stack[t] # <<>>
    /\ LET s == stack[t][Len(stack[t])]
           b == styles[s].buf
       IN   IF ResetAttempted(write)
            THEN IF CanBorrowMut(b)
                 THEN   /\ o \in ResetOutcomes(bufs[b].kind)
                        /\ bufs' = [bufs EXCEPT ![b].data = @ \o o.bytes]
                        /\ issued' = [issued EXCEPT ![t] = @ \o o.bytes]
                        /\ scene' = [scene EXCEPT ![t] =
                                        SceneAfterReset(@, write, o.res)]
                        /\ stack' = [stack EXCEPT ![t] =
                                        SubSeq(@, 1, Len(@) - 1)]
                        /\ last' = [op |-> "render", thread |-> t, style |-> s,
                                    apply |-> "ok", write |-> write,
                                    reset |-> o.res,
                                    res |-> ResultAnd(write, o.res),
                                    depth |-> Len(stack[t]) - 1]
                        /\ UNCHANGED <<builderVars, fmts, borrow,
                                       styles, printVars, panicked, tsVars>>
                 ELSE Panic
            ELSE /\ stack' = [stack EXCEPT ![t] = SubSeq(@, 1, Len(@) - 1)]
                 /\ last' = [op |-> "render", thread |-> t, style |-> s,
                             apply |-> "ok", write |-> write,
                             reset |-> "none", res |-> write,
                             depth |-> Len(stack[t]) - 1]
                 /\ scene' = [scene EXCEPT ![t] = "off"]
                 /\ UNCHANGED <<builderVars, fmts, bufs, borrow,
                                styles, issued, printVars, panicked, tsVars>>

(***************************************************************************)
(* Formatter::print and Formatter::clear.                                  *)
(***************************************************************************)
NoJob == [sent |-> 0, before |-> <<>>, start |-> 0]

\* writer.inner.print(&self.buf.borrow()): the buffer is borrowed shared and
\* the BufferWriter takes the lock of its stream.
PrintBegin(t) ==
    /\ Idle(t)
    /\ stack[t] = <<>>
    /\ lock = "free"
    /\ Len(dest[writer.target]) + Len(bufs[fmts[t].buf].data) <= MaxBytes
    /\ LET b == fmts[t].buf IN
         IF CanBorrow(b)
         THEN /\ borrow' = [borrow EXCEPT ![b] = @ + 1]
              /\ lock' = t
              /\ pc' = [pc EXCEPT ![t] = "print"]
              /\ job' = [job EXCEPT ![t] =
                            [sent |-> 0, before |-> bufs[b].data,
                             start |-> Len(dest[writer.target])]]
              /\ last' = Other
              /\ UNCHANGED <<builderVars, fmts, bufs, styles, stack,
                             scene, issued, dest, panicked, tsVars>>
         ELSE Panic

PrintReturn(t, res) ==
    /\ borrow' = [borrow EXCEPT ![fmts[t].buf] = @ - 1]
    /\ lock' = "free"
    /\ pc' = [pc EXCEPT ![t] = "printed"]
    /\ job' = [job EXCEPT ![t] = NoJob]
    /\ last' = [op |-> "print", thread |-> t, res |-> res,
                before |-> job[t].before,
                out |-> SubSeq(dest[writer.target], job[t].start + 1,
                               job[t].start + job[t].sent)]

\* The stream takes the next piece of the buffer (write_all under the lock).
PrintChunk(t) ==
    /\ pc[t] = "print"
    /\ job[t].sent < Len(bufs[fmts[t].buf].data)
    /\ dest' = [dest EXCEPT ![writer.target] =
                   Append(@, bufs[fmts[t].buf].data[job[t].sent + 1])]
    /\ job' = [job EXCEPT ![t].sent = @ + 1]
    /\ last' = Other
    /\ UNCHANGED <<builderVars, fmtVars, pc, lock, panicked, tsVars>>

\* The stream refuses a piece: print returns the I/O error.
PrintFail(t) ==
    /\ pc[t] = "print"
    /\ job[t].sent < Len(bufs[fmts[t].buf].data)
    /\ PrintReturn(t, "err")
    /\ UNCHANGED <<builderVars, fmts, bufs, styles, stack, scene, issued,
                   dest, panicked, tsVars>>

PrintEnd(t) ==
    /\ pc[t] = "print"
    /\ job[t].sent = Len(bufs[fmts[t].buf].data)
    /\ PrintReturn(t, "ok")
    /\ UNCHANGED <<builderVars, fmts, bufs, styles, stack, scene, issued,
                   dest, panicked, tsVars>>

\* A clear that leaves the bytes in place.
ClearedKeep(data) == data

\* Buffer::clear
Cleared(data) == <<>>

\* self.buf.borrow_mut().clear(): the driver clears after every print, and
\* may clear a record it does not print.
FormatterClear(t) ==
    /\ fmts[t] # NoFormatter
    /\ pc[t] \in {"idle", "printed"}
    /\ stack[t] = <<>>
    /\ LET b == fmts[t].buf IN
         IF CanBorrowMut(b)
         THEN /\ bufs' = [bufs EXCEPT ![b].data = Cleared(@)]
              /\ issued' = [issued EXCEPT ![t] = <<>>]
              /\ scene' = [scene EXCEPT ![t] = "fresh"]
              /\ last' = [op |-> "clear", thread |-> t,
                          before |-> bufs[b].data,
                          print |-> IF last.op = "print" /\ last.thread = t
                                    THEN last.res ELSE "none"]
              /\ pc' = [pc EXCEPT ![t] = "idle"]
              /\ UNCHANGED <<builderVars, fmts, borrow, styles, stack,
                             job, lock, dest, panicked, tsVars>>
         ELSE Panic

(***************************************************************************)
(* Timestamp.                                                              *)
(***************************************************************************)
\* Instants the clock passes through (UTC calendar fields), in order.
Instant(y, mo, d, h, mi, sec) ==
    [year |-> y, month |-> mo, day |-> d, hour |-> h, minute |-> mi,
     second |-> sec]

Instants ==
    {Instant(1970, 1, 1, 0, 0, 0),
     Instant(2018, 3, 9, 7, 5, 3),
     Instant(2018, 12, 31, 23, 59, 59),
     Instant(9999, 10, 2, 12, 0, 30)}

Fields(i) == <<i.year, i.month, i.day, i.hour, i.minute, i.second>>

RECURSIVE LexLess(_, _)
LexLess(a, b) ==
    /\ a # <<>>
    /\ \/ Head(a) < Head(b)
       \/ Head(a) = Head(b) /\ LexLess(Tail(a), Tail(b))

Before(i, j) == LexLess(Fields(i), Fields(j))

DigitChars == <<"0", "1", "2", "3", "4", "5", "6", "7", "8", "9">>

RECURSIVE Decimal(_)
Decimal(v) ==
    IF v < 10 THEN <<DigitChars[v + 1]>>
    ELSE Decimal(v \div 10) \o <<DigitChars[(v % 10) + 1]>>

RECURSIVE Zeros(_)
Zeros(n) == IF n <= 0 THEN <<>> ELSE <<"0">> \o Zeros(n - 1)

\* Numeric(_, Pad::None)
NumericNone(v, width) == Decimal(v)

\* Numeric(_, Pad::Zero): at least `width` characters, padded with zeros.
NumericZero(v, width) == Zeros(width - Len(Decimal(v))) \o Decimal(v)

\* Fixed(TimezoneOffsetZ): "Z" for a zero offset, +HH:MM / -HH:MM otherwise.
TimezoneOffsetZ(minutes) ==
    IF minutes = 0 THEN <<"Z">>
    ELSE LET m == IF minutes < 0 THEN 0 - minutes ELSE minutes IN
         <<IF minutes < 0 THEN "-" ELSE "+">>
         \o NumericZero(m \div 60, 2) \o <<":">> \o NumericZero(m % 60, 2)

\* The offset of DateTime<Utc>.
UtcOffset == 0

\* The items of Display for Timestamp with Pad::None in place of Pad::Zero.
TimestampFmtNoPad(t) ==
    NumericNone(t.year, 4) \o <<"-">> \o NumericNone(t.month, 2) \o <<"-">>
    \o NumericNone(t.day, 2) \o <<"T">> \o NumericNone(t.hour, 2) \o <<":">>
    \o NumericNone(t.minute, 2) \o <<":">> \o NumericNone(t.second, 2)
    \o TimezoneOffsetZ(UtcOffset)

\* impl fmt::Display for Timestamp: format_with_items(ITEMS).
TimestampFmt(t) ==
    NumericZero(t.year, 4) \o <<"-">> \o NumericZero(t.month, 2) \o <<"-">>
    \o NumericZero(t.day, 2) \o <<"T">> \o NumericZero(t.hour, 2) \o <<":">>
    \o NumericZero(t.minute, 2) \o <<":">> \o NumericZero(t.second, 2)
    \o TimezoneOffsetZ(UtcOffset)

\* impl fmt::Debug for Timestamp: debug_tuple("Timestamp") with one field
\* that is rendered by Display.
TimestampDebugFmt(t) == <<"Timestamp", "(">> \o TimestampFmt(t) \o <<")">>

\* Time passes.
Tick ==
    /\ \E i \in Instants : Before(clock, i) /\ clock' = i
    /\ last' = [op |-> "tick"]
    /\ UNCHANGED <<builderVars, fmtVars, printVars, panicked, ts,
                   shown>>

\* Formatter::timestamp: Timestamp(Utc::now())
FormatterTimestamp(t) ==
    /\ Idle(t)
    /\ ts' = clock
    /\ shown' = <<>>
    /\ last' = [op |-> "timestamp", thread |-> t,
                before |-> bufs[fmts[t].buf].data]
    /\ UNCHANGED <<builderVars, fmtVars, printVars, panicked, clock>>

TimestampDisplay ==
    /\ ts # NoTimestamp
    /\ Len(shown) < MaxShown
    /\ shown' = Append(shown, [via |-> "Display", text |-> TimestampFmt(ts)])
    /\ last' = [op |-> "display"]
    /\ UNCHANGED <<builderVars, fmtVars, printVars, panicked, clock,
                   ts>>

TimestampDebug ==
    /\ ts # NoTimestamp
    /\ Len(shown) < MaxShown
    /\ shown' = Append(shown, [via |-> "Debug", text |-> TimestampDebugFmt(ts)])
    /\ last' = [op |-> "debug"]
    /\ UNCHANGED <<builderVars, fmtVars, printVars, panicked, clock,
                   ts>>

(***************************************************************************)
(* Specifications.                                                         *)
(***************************************************************************)
FirstInstant == CHOOSE i \in Instants : \A j \in Instants \ {i} : Before(i, j)

InitRest ==
    /\ fmts = [t \in Threads |-> NoFormatter]
    /\ bufs = <<>>
    /\ borrow = <<>>
    /\ styles = <<>>
    /\ stack = [t \in Threads |-> <<>>]
    /\ issued = [t \in Threads |-> <<>>]
    /\ scene = [t \in Threads |-> "fresh"]
    /\ pc = [t \in Threads |-> "idle"]
    /\ job = [t \in Threads |-> NoJob]
    /\ lock = "free"
    /\ dest = [g \in Targets |-> <<>>]
    /\ last = [op |-> "init"]
    /\ panicked = FALSE
    /\ clock = FirstInstant
    /\ ts = NoTimestamp
    /\ shown = <<>>

\* The operations of a format callback on thread t that do not depend on
\* an outcome of the terminal.
Callback(t) ==
    \/ FormatterFlush(t)
    \/ \E s \in DOMAIN styles, c \in Colors : StyleSetColor(s, c)
    \/ \E s \in DOMAIN styles, yes \in BOOLEAN : StyleSetBold(s, yes)

\* One thread formats, prints and clears records through a Writer built
\* for stdout with the style choice Always; the terminal takes every
\* escape sequence.
InitAlways ==
    /\ builder = [target |-> "Stdout", write_style |-> "Always"]
    /\ writer = Build(builder)
    /\ InitRest

\* The same through a Writer built for either stream with the choice Never.
InitNever ==
    /\ \E g \in Targets :
          /\ builder = [target |-> g, write_style |-> "Never"]
          /\ writer = Build(builder)
    /\ InitRest

Next ==
    /\ ~panicked
    /\ \E t \in MainThreads :
          \/ FormatterNew(t)
          \/ Callback(t)
          \/ FormatterWrite(t, IF stack[t] = <<>> THEN ": boom" ELSE "ERROR")
          \/ Len(styles) < MaxPrinted /\ FormatterStyle(t)
          \/ \E s \in DOMAIN styles :
               \E o \in SetColorOutcomes(bufs[styles[s].buf].kind,
                                         styles[s].spec) :
                  o.res = "ok" /\ StyledValueApply(t, s, o)
          \/ \E write \in {"ok", "err"} :
               StyledValueReset(t, write, [res |-> "ok",
                    bytes |-> IF bufs[fmts[t].buf].kind = "ansi"
                              THEN <<RESET>> ELSE <<>>])
          \/ PrintBegin(t)
          \/ PrintChunk(t)
          \/ PrintFail(t)
          \/ PrintEnd(t)
          \/ pc[t] = "printed" /\ FormatterClear(t)

SpecAlways == InitAlways /\ [][Next]_vars

SpecNever == InitNever /\ [][Next]_vars

\* One thread formats records with several Styles through the default
\* Writer; set_color and reset may fail.
InitStyle ==
    /\ builder = BuilderNew
    /\ writer = Build(builder)
    /\ InitRest

NextStyle ==
    /\ ~panicked
    /\ \E t \in MainThreads :
          \/ FormatterNew(t)
          \/ Callback(t)
          \/ FormatterWrite(t, "ERROR")
          \/ FormatterStyle(t)
          \/ \E s \in DOMAIN styles : StyleClone(s)
          \/ \E s \in DOMAIN styles :
               \E o \in SetColorOutcomes(bufs[styles[s].buf].kind,
                                         styles[s].spec) :
                  StyledValueApply(t, s, o)
          \/ \E write \in {"ok", "err"}, res \in {"ok", "err"} :
               StyledValueReset(t, write, [res |-> res,
                    bytes |-> IF res = "ok" /\ bufs[fmts[t].buf].kind = "ansi"
                              THEN <<RESET>> ELSE <<>>])

SpecStyle == InitStyle /\ [][NextStyle]_vars

\* The writer builder alone.
InitBuilder ==
    /\ builder = BuilderNew
    /\ writer = NoWriter
    /\ InitRest

NextBuilder ==
    \/ \E g \in Targets : BuilderTarget(g)
    \/ \E s \in SpecStrings : BuilderParse(s)
    \/ \E ws \in WriteStyles : BuilderWriteStyle(ws)
    \/ BuilderBuild

SpecBuilder == InitBuilder /\ [][NextBuilder]_vars

\* Several threads, each with its own Formatter, print through one Writer.
NextConc ==
    /\ ~panicked
    /\ \E t \in Threads :
          \/ FormatterNew(t)
          \/ /\ Len(issued[t]) < MaxRecord
             /\ FormatterWrite(t, IF t = "t1" THEN "ERROR" ELSE ": boom")
          \/ PrintBegin(t)
          \/ PrintChunk(t)
          \/ PrintFail(t)
          \/ PrintEnd(t)
          \/ pc[t] = "printed" /\ FormatterClear(t)

SpecConc == InitStyle /\ [][NextConc]_vars

\* A Formatter of the default Writer hands out Timestamps.
NextTs ==
    \/ Tick
    \/ \E t \in MainThreads :
          \/ FormatterNew(t)
          \/ \E text \in Texts :
                Len(issued[t]) < MaxRecord /\ FormatterWrite(t, text)
          \/ FormatterTimestamp(t)
    \/ TimestampDisplay
    \/ TimestampDebug

SpecTs == InitStyle /\ [][NextTs]_vars

(***************************************************************************)
(* Properties.                                                             *)
(***************************************************************************)
Data(t) == bufs[fmts[t].buf].data

Formatted(t) == fmts[t] # NoFormatter

\* C1: parse_write_style, whose result Builder::parse stores, maps exactly
\* "auto", "always" and "never" to Auto, Always and Never, and every other
\* string (the empty one, other cases, decorated ones) to Auto.
C1_ParseWriteStyle ==
    last.op = "parse" =>
        /\ last.input = "auto"   => builder.write_style = "Auto"
        /\ last.input = "always" => builder.write_style = "Always"
        /\ last.input = "never"  => builder.write_style = "Never"
        /\ last.input \notin {"auto", "always", "never"}
              => builder.write_style = "Auto"

C1_Witness ==
    /\ last.op = "parse"
    /\ last.input = "NEVER!!"
    /\ last.was = "Never"
    /\ builder.write_style = "Auto"

\* C2: when the render of a StyledValue returns after its style was applied,
\* and the reset did not fail, the terminal-color state of the shared
\* buffer is "reset", whether the inner value's rendering succeeded or not.
C2_ResetAfterRender ==
    (last.op = "render" /\ last.apply = "ok" /\ last.reset # "err")
        => ColorState(bufs[styles[last.style].buf].data) = "reset"

C2_Witness ==
    /\ last.op = "render"
    /\ last.apply = "ok"
    /\ last.write = "err"
    /\ last.reset = "ok"
    /\ last.depth = 1
    /\ bufs[styles[last.style].buf].kind = "ansi"
    /\ styles[last.style].spec # ColorSpecNew
    /\ "ERROR" \in {issued[last.thread][i] : i \in DOMAIN issued[last.thread]}

\* C3: a render is an error when the style could not be applied, and then
\* the inner value is not rendered; otherwise it is an error exactly when
\* the inner rendering or the reset failed.
C3_RenderResult ==
    last.op = "render" =>
        /\ last.apply = "err" =>
              /\ last.res = "err"
              /\ Len(stack[last.thread]) = last.depth
        /\ last.apply = "ok" =>
              (last.res = "err" <=> (last.write = "err" \/ last.reset = "err"))

C3_Witness ==
    /\ last.op = "render"
    /\ last.apply = "ok"
    /\ last.write = "err"
    /\ last.reset = "err"
    /\ last.res = "err"

\* C4: every Style of a Formatter holds the Formatter's own buffer cell, and
\* that buffer is the bytes of the thread's calls (plain writes, escape
\* sequences, values) in the order the calls were made; no other cell
\* exists.
C4_SharedLinear ==
    \A t \in Threads : Formatted(t) =>
        /\ Data(t) = issued[t]
        /\ \A s \in DOMAIN styles :
              styles[s].owner = t => styles[s].buf = fmts[t].buf
        /\ Len(bufs) = Cardinality({u \in Threads : Formatted(u)})

C4_Witness ==
    /\ Formatted("t1")
    /\ Len(styles) = 2
    /\ styles[1].spec = ColorSpecNew
    /\ styles[2].spec = [fg |-> NoColorSet, bold |-> TRUE]
    /\ last.op = "render"
    /\ last.style = 1
    /\ Data("t1") = <<RESET, RESET, BOLD, "ERROR", RESET, RESET>>

\* C5: with policy Always and target Stdout, a record that is the red and
\* bold styled "ERROR" followed by the plain ": boom" is printed to stdout
\* as: escape sequences only, among them bold and red, then "ERROR", then a
\* reset, then ": boom", and nothing else.
C5_AlwaysStdoutExample ==
    (/\ builder = [target |-> "Stdout", write_style |-> "Always"]
     /\ last.op = "print"
     /\ last.res = "ok"
     /\ scene[last.thread] = "match")
        => LET out == last.out
               all == dest["Stdout"]
           IN /\ Len(all) >= Len(out)
              /\ SubSeq(all, Len(all) - Len(out) + 1, Len(all)) = out
              /\ StripEscapes(out) = <<"ERROR", ": boom">>
              /\ \E i \in 2 .. Len(out) :
                    /\ out[i] = "ERROR"
                    /\ \A k \in 1 .. (i - 1) : IsEscape(out[k])
                    /\ out[i - 1] # RESET
                    /\ {BOLD, FgToken("Red")} \subseteq
                          {out[k] : k \in 1 .. (i - 1)}
                    /\ Len(out) = i + 2
                    /\ out[i + 1] = RESET
                    /\ out[i + 2] = ": boom"

C5_Witness ==
    /\ builder = [target |-> "Stdout", write_style |-> "Always"]
    /\ last.op = "print"
    /\ last.res = "ok"
    /\ scene[last.thread] = "match"

\* C6: with policy Never no escape sequence reaches a stream, and a printed
\* record is exactly the text its callback wrote: the styled "ERROR"
\* followed by ": boom" is printed as "ERROR", ": boom".
C6_NeverPlain ==
    builder.write_style = "Never" =>
        /\ \A g \in Targets : \A i \in DOMAIN dest[g] : ~IsEscape(dest[g][i])
        /\ (last.op = "print" /\ last.res = "ok") =>
              /\ last.out = StripEscapes(issued[last.thread])
              /\ scene[last.thread] = "match"
                    => last.out = <<"ERROR", ": boom">>

C6_Witness ==
    /\ builder.write_style = "Never"
    /\ last.op = "print"
    /\ last.res = "ok"
    /\ scene[last.thread] = "match"
    /\ dest[builder.target] = <<"ERROR", ": boom">>

\* C7: clear leaves the buffer cell of the Formatter, which is the cell of
\* its Styles, empty; print leaves the buffer as it was; a printed record
\* is the bytes written since the last clear.
C7_ClearEmpties ==
    /\ last.op = "clear" =>
          /\ Data(last.thread) = <<>>
          /\ \A s \in DOMAIN styles :
                styles[s].owner = last.thread =>
                   /\ styles[s].buf = fmts[last.thread].buf
                   /\ bufs[styles[s].buf].data = <<>>
    /\ last.op = "print" =>
          /\ Data(last.thread) = last.before
          /\ last.res = "ok" => last.out = issued[last.thread]

C7_Witness ==
    /\ last.op = "clear"
    /\ last.print = "err"
    /\ Len(last.before) >= 2
    /\ styles # <<>>
    /\ dest[writer.target] # <<>>

\* C8: while a thread prints, the stream's tail is the part of that thread's
\* record sent so far, so a record reaches the stream as one block; and
\* every Formatter has a buffer cell of its own, holding its thread's bytes.
C8_RecordsContiguous ==
    /\ \A t \in Threads : pc[t] = "print" =>
          LET all == dest[writer.target] IN
          /\ lock = t
          /\ Len(all) = job[t].start + job[t].sent
          /\ SubSeq(all, job[t].start + 1, Len(all))
                = SubSeq(job[t].before, 1, job[t].sent)
    /\ (last.op = "print" /\ last.res = "ok") => last.out = last.before
    /\ \A t \in Threads : Formatted(t) =>
          /\ Data(t) = issued[t]
          /\ \A u \in Threads \ {t} :
                Formatted(u) => fmts[u].buf # fmts[t].buf

C8_Witness ==
    /\ pc["t1"] = "print"
    /\ job["t1"].sent = 1
    /\ Len(job["t1"].before) = 2
    /\ dest[writer.target] = <<": boom", ": boom", "ERROR">>
    /\ Formatted("t2")
    /\ issued["t2"] # <<>>

\* The text of a render without the Debug wrapper.
Body(e) ==
    IF e.via = "Debug" THEN SubSeq(e.text, 3, Len(e.text) - 1) ELSE e.text

IsDigit(c) == \E d \in 1 .. 10 : DigitChars[d] = c

DigitValue(c) == (CHOOSE d \in 1 .. 10 : DigitChars[d] = c) - 1

RECURSIVE Number(_)
Number(digits) ==
    IF digits = <<>> THEN 0
    ELSE 10 * Number(SubSeq(digits, 1, Len(digits) - 1))
         + DigitValue(digits[Len(digits)])

\* YYYY-MM-DDTHH:MM:SS, the first 19 characters, of instant t.
DateTimeLayout(x, t) ==
    /\ Len(x) >= 19
    /\ x[5] = "-" /\ x[8] = "-" /\ x[11] = "T" /\ x[14] = ":" /\ x[17] = ":"
    /\ \A k \in (1 .. 19) \ {5, 8, 11, 14, 17} : IsDigit(x[k])
    /\ Number(SubSeq(x, 1, 4)) = t.year
    /\ Number(SubSeq(x, 6, 7)) = t.month
    /\ Number(SubSeq(x, 9, 10)) = t.day
    /\ Number(SubSeq(x, 12, 13)) = t.hour
    /\ Number(SubSeq(x, 15, 16)) = t.minute
    /\ Number(SubSeq(x, 18, 19)) = t.second

\* C9 (as amended): every render of a Timestamp, by Display or inside
\* Debug, is the text YYYY-MM-DDTHH:MM:SS of the captured instant, zero
\* padded, followed by the letter Z; capturing writes nothing to the buffer.
C9_TimestampLayoutZ ==
    /\ \A i \in DOMAIN shown :
          /\ Body(shown[i]) = Body(shown[1])
          /\ DateTimeLayout(Body(shown[i]), ts)
          /\ Len(Body(shown[i])) = 20
          /\ Body(shown[i])[20] = "Z"
    /\ last.op = "timestamp" => Data(last.thread) = last.before

\* C9 (as stated): the same, with a numeric offset +HH:MM or -HH:MM after
\* the seconds.
C9_TimestampLayoutOffset ==
    /\ \A i \in DOMAIN shown :
          LET x == Body(shown[i]) IN
          /\ x = Body(shown[1])
          /\ DateTimeLayout(x, ts)
          /\ Len(x) = 25
          /\ x[20] \in {"+", "-"}
          /\ IsDigit(x[21]) /\ IsDigit(x[22])
          /\ x[23] = ":"
          /\ IsDigit(x[24]) /\ IsDigit(x[25])
    /\ last.op = "timestamp" => Data(last.thread) = last.before

C9_Witness ==
    /\ Len(shown) = 2
    /\ shown[1].via = "Display"
    /\ shown[2].via = "Debug"
    /\ ts # clock
    /\ ts.month < 10
    /\ Formatted("t1")
    /\ Data("t1") # <<>>

\* C10: no borrow check of a buffer cell fails, and between operations a
\* cell is borrowed only by the print that is running on it.
C10_NoBorrowPanic ==
    /\ ~panicked
    /\ \A t \in Threads : Formatted(t) =>
          borrow[fmts[t].buf] = (IF pc[t] = "print" THEN 1 ELSE 0)

C10_Witness ==
    /\ ~panicked
    /\ last.op = "render"
    /\ last.depth = 1
    /\ last.apply = "ok"
    /\ "ERROR" \in {issued["t1"][i] : i \in DOMAIN issued["t1"]}
    /\ dest[writer.target] # <<>>

====
